---- MODULE Spec2Model ----
(***************************************************************************)
(* Model of IntegrationArea (Mind/OccipitalLobe/VisualCortex/              *)
(* integration_area.py): the 64x64 cell grid, its point / region / whole   *)
(* grid edits, and the run_game_of_life / stop_game loop.                  *)
(*                                                                         *)
(* The methods are coroutines on one asyncio event loop: code between two  *)
(* awaits is one atomic step.  update_cell, update_region, set_grid and    *)
(* stop_game hold no await and are one action each.  run_game_of_life      *)
(* holds three awaits (set_image, sleep, clear) and is cut at them.        *)
(* show_splash_screen is cut at each call of the splash manager, each      *)
(* sleep and each set_image.  The sprite methods and trigger_splash_event  *)
(* hold one await each and change the instance only after it.              *)
(***************************************************************************)
EXTENDS Integers, Sequences, FiniteSets, TLC

\* ------------------------------------------------------------------ bounds
\* grid-edit calls in a run of edits alone
MaxCalls == 2
\* grid-edit calls made by other tasks while run loops are followed
MaxRunCalls == 1
\* frames one run loop pushes before it is no longer followed
MaxGen == 2
\* frames the run loop pushes when it is followed from a seeded glider
MaxGliderGen == 4
\* sprite calls in a run of sprite calls and grid edits
MaxSpriteCalls == 2

\* ------------------------------------------------------- program constants
N == 64

Idx == 0 .. (N - 1)

Tasks == {1, 2}

\* ------------------------------------------------------------------- state
VARIABLES
    grid,        \* self.grid: row y -> column x -> cell value
    is_running,  \* self.is_running
    pc,          \* position of each run_game_of_life() coroutine
    gen,         \* generations each run loop has computed
    pushed,      \* frames each run loop has handed to primary_area.set_image
    failed,      \* the run's set_image raised
    cleared,     \* the run has invoked primary_area.clear()
    outcome,     \* how the run ended: "none", "returned", "raised"
    display,     \* what the display sink last received: a frame or Blank
    last,        \* the last grid-edit call and how it ended
    ncalls,      \* grid-edit calls made so far
    stopReq,     \* stop_game ran while this loop was active, no run started since
    genAtStop,   \* gen of the loop when that stop_game ran
    stopEarly,   \* stop_game ran before this run's first step; no later while test yet
    origin,      \* position of the glider the grid was seeded with, or <<>>
    _initialized,    \* self._initialized
    splash_manager,  \* self.splash_manager: "none" (None) or "set"
    sp_pc,       \* position of the show_splash_screen() coroutine
    sp_i,        \* loading step / animation frame that coroutine is at
    sp_calls,    \* splash-manager calls it has issued, in order
    sp_failed,   \* splash-manager call that raised, or "none"
    sp_result,   \* what show_splash_screen() returned, "none" while it runs
    sp_ok,       \* fallback frames the display sink has accepted
    ev,          \* the last trigger_splash_event call and how it ended
    _sprite_cache,   \* self._sprite_cache: Missing, or the set of cached ids
    bridge,      \* sprite commands sent through SynapticPathways, in order
    slast,       \* the last sprite call and how it ended
    scalls,      \* sprite calls made so far
    returned,    \* sprite ids create_sprite has returned, not deleted since
    _processing, \* self._processing
    cmd,         \* type of the process_command call in flight, or "none"
    clast        \* the last process_command call answered, and how

areaVars == <<_initialized, splash_manager>>

splashVars == <<sp_pc, sp_i, sp_calls, sp_failed, sp_result, sp_ok, ev>>

spriteVars == <<_sprite_cache, bridge, slast, scalls, returned>>

cmdVars == <<_processing, cmd, clast>>

cortexVars == <<areaVars, splashVars, spriteVars, cmdVars>>

vars == <<grid, is_running, pc, gen, pushed, failed, cleared, outcome, display,
          last, ncalls, stopReq, genAtStop, stopEarly, origin, cortexVars>>

runVars == <<is_running, pc, gen, pushed, failed, cleared, outcome, display, stopReq, genAtStop,
            stopEarly>>

\* ------------------------------------------------------------ grid helpers
\* the cells of a grid that hold 1 exactly at the positions in S
PatternGrid(S) == [y \in Idx |-> [x \in Idx |-> IF <<x, y>> \in S THEN 1 ELSE 0]]

Min(a, b) == IF a < b THEN a ELSE b

\* Neighbors without the modulo: a neighbour beyond an edge counts as dead
Neighbors_NoWrap(g, x, y) ==
    LET cell(cx, cy) == IF cx \in Idx /\ cy \in Idx THEN g[cy][cx] ELSE 0
    IN    cell(x - 1, y - 1) + cell(x, y - 1) + cell(x + 1, y - 1)
        + cell(x - 1, y)                      + cell(x + 1, y)
        + cell(x - 1, y + 1) + cell(x, y + 1) + cell(x + 1, y + 1)

\* sum(self.grid[(y+dy) % 64][(x+dx) % 64] for dy, dx in -1..1, not both 0)
Neighbors(g, x, y) ==
      g[(y - 1) % N][(x - 1) % N] + g[(y - 1) % N][x] + g[(y - 1) % N][(x + 1) % N]
    + g[y][(x - 1) % N]                               + g[y][(x + 1) % N]
    + g[(y + 1) % N][(x - 1) % N] + g[(y + 1) % N][x] + g[(y + 1) % N][(x + 1) % N]

\* the image built at the top of each generation: Image.new("RGB", (64, 64))
\* is all black, and pixels[x, y] is assigned for the live cells only; the
\* frame is kept as that assignment, every other pixel being black
RenderFrame(g) ==
    LET live == {p \in Idx \X Idx : g[p[2]][p[1]] # 0}
    IN  [p \in live |->
            LET neighbors == Neighbors(g, p[1], p[2])
            IN  <<0, Min(255, neighbors * 40), 255 - neighbors * 20>>]

\* new_grid of one generation, computed from the grid as it is at that moment
NextGeneration(g) ==
    [y \in Idx |-> [x \in Idx |->
        LET n == Neighbors(g, x, y)
        IN  IF g[y][x] # 0
            THEN (IF n \in {2, 3} THEN 1 ELSE 0)
            ELSE (IF n = 3 THEN 1 ELSE 0)]]

\* the sink after clear(): no pixel lit
Blank == << >>

\* ------------------------------------------------------------------ inputs
\* arguments the callers pass: in range, on both edges, and out of range on
\* both sides (Python accepts any int)
CellArgs == { <<0, 0, 1>>, <<63, 0, 1>>, <<0, 63, 1>>, <<63, 63, 0>>, <<1, 0, 0>>,
              <<-1, 0, 1>>, <<0, -1, 1>>, <<64, 0, 1>>, <<0, 64, 0>>, <<-1, 64, 1>>,
              <<0, 0, 2>>, <<1, 0, -1>> }


\* regions: 2x2, 2 rows of 3, ragged (second row shorter)
Block2 == << <<1, 0>>, <<0, 1>> >>

Block23 == << <<1, 1, 1>>, <<1, 0, 1>> >>

Ragged == << <<1, 1>>, <<1>> >>

\* update_region arguments <<x, y, region>>: inside the grid, clipped on each
\* edge, wholly outside, ragged with and without the short row being read,
\* and empty
RegionArgs == { <<0, 0, Block2>>, <<5, 6, Block23>>, <<-1, 63, Block23>>,
                <<62, -1, Block23>>, <<63, 63, Block2>>, <<64, 0, << <<1>> >> >>,
                <<0, 1, << <<2, 1>> >> >>, <<62, 62, Ragged>>, <<63, 0, Ragged>>,
                <<0, 0, << >> >> }

\* a list of rows rows, each cols long, holding 1 at the (x, y) of S, v at
\* the (x, y) of T and 0 elsewhere
ListGrid(rows, cols, S, T, v) ==
    [r \in 1 .. rows |-> [c \in 1 .. cols |->
        IF <<c - 1, r - 1>> \in S THEN 1
        ELSE IF <<c - 1, r - 1>> \in T THEN v ELSE 0]]

\* the canonical glider with its bounding box at (px, py), on the torus
GliderCells(px, py) ==
    { <<(px + 1) % N, py % N>>,
      <<(px + 2) % N, (py + 1) % N>>,
      <<px % N, (py + 2) % N>>, <<(px + 1) % N, (py + 2) % N>>,
      <<(px + 2) % N, (py + 2) % N>> }

BlockCells == { <<0, 0>>, <<1, 0>>, <<0, 1>>, <<1, 1>> }

BlinkerCells == { <<62, 63>>, <<63, 63>>, <<0, 63>> }

\* new_grid arguments of set_grid: 1..4 are 64x64 with cells in {0,1},
\* 5 is 64x64 with a cell holding 2, 6..9 are malformed
GridInputTable ==
  [i \in 1 .. 9 |->
    CASE i = 1 -> ListGrid(N, N, {}, {}, 0)
      [] i = 2 -> ListGrid(N, N, GliderCells(62, 62), {}, 0)
      [] i = 3 -> ListGrid(N, N, BlockCells \cup BlinkerCells, {}, 0)
      [] i = 4 -> ListGrid(N, N, {<<5, 5>>, <<6, 5>>, <<5, 7>>}, {}, 0)
      [] i = 5 -> ListGrid(N, N, {<<6, 5>>}, {<<5, 5>>}, 2)
      [] i = 6 -> ListGrid(N - 1, N, BlockCells, {}, 0)
      [] i = 7 -> ListGrid(N + 1, N, BlockCells, {}, 0)
      [] i = 8 -> [ListGrid(N, N, BlockCells, {}, 0) EXCEPT ![N] = Append(@, 1)]
      [] i = 9 -> [ListGrid(N, N, BlockCells, {}, 0) EXCEPT ![2] = SubSeq(@, 1, N - 1)]]

GridInput(i) == GridInputTable[i]

GridInputs == 1 .. 9

\* the arguments of the edits that other tasks make while a run loop is
\* followed: a few of each kind
RunCellArgs == { <<63, 0, 1>>, <<0, 0, 2>> }

RunRegionArgs == { <<5, 6, Block23>>, <<0, 1, << <<2, 1>> >> >> }

RunGridInputs == {2, 3, 5, 6}

NoCall == [op |-> "none", x |-> 0, y |-> 0, state |-> 0, region |-> << >>,
           gi |-> 0, result |-> "none"]

\* -------------------------------------------------------------- grid edits
\* update_cell with the row and column indices exchanged
update_cell_Swapped(x, y, state) ==
    /\ ncalls' = ncalls + 1
    /\ IF 0 <= x /\ x < N /\ 0 <= y /\ y < N /\ state \in {0, 1}
       THEN /\ grid' = [grid EXCEPT ![x][y] = state]
            /\ last' = [NoCall EXCEPT !.op = "update_cell", !.x = x, !.y = y,
                                      !.state = state, !.result = "ok"]
       ELSE /\ grid' = grid
            /\ last' = [NoCall EXCEPT !.op = "update_cell", !.x = x, !.y = y,
                                      !.state = state, !.result = "rejected"]
    /\ UNCHANGED <<runVars, origin, cortexVars>>

\* update_cell testing only the upper bounds: a negative index then counts
\* from the end of the list
update_cell_NoLowerBound(x, y, state) ==
    /\ ncalls' = ncalls + 1
    /\ IF x < N /\ y < N /\ state \in {0, 1}
       THEN /\ grid' = [grid EXCEPT ![y % N][x % N] = state]
            /\ last' = [NoCall EXCEPT !.op = "update_cell", !.x = x, !.y = y,
                                      !.state = state, !.result = "ok"]
       ELSE /\ grid' = grid
            /\ last' = [NoCall EXCEPT !.op = "update_cell", !.x = x, !.y = y,
                                      !.state = state, !.result = "rejected"]
    /\ UNCHANGED <<runVars, origin, cortexVars>>

\* update_cell: one guarded assignment; a bad argument is journalled as an
\* error and the method returns normally
update_cell(x, y, state) ==
    /\ ncalls' = ncalls + 1
    /\ IF 0 <= x /\ x < N /\ 0 <= y /\ y < N /\ state \in {0, 1}
       THEN /\ grid' = [grid EXCEPT ![y][x] = state]
            /\ last' = [NoCall EXCEPT !.op = "update_cell", !.x = x, !.y = y,
                                      !.state = state, !.result = "ok"]
       ELSE /\ grid' = grid
            /\ last' = [NoCall EXCEPT !.op = "update_cell", !.x = x, !.y = y,
                                      !.state = state, !.result = "rejected"]
    /\ UNCHANGED <<runVars, origin, cortexVars>>

\* the loops of update_region testing only the upper bounds: a negative
\* target index then counts from the end of the list
RECURSIVE WriteRegion_NoLowerBound(_, _, _, _, _)
WriteRegion_NoLowerBound(g, x, y, region, k) ==
    LET height == Len(region)
        width  == Len(region[1])
        dy     == k \div width
        dx     == k % width
        grid_x == x + dx
        grid_y == y + dy
    IN  IF k >= height * width
        THEN [grid |-> g, result |-> "ok"]
        ELSE IF grid_x < N /\ grid_y < N
             THEN IF dx + 1 > Len(region[dy + 1])
                  THEN [grid |-> g, result |-> "raised"]
                  ELSE WriteRegion_NoLowerBound(
                           [g EXCEPT ![grid_y % N][grid_x % N] = region[dy + 1][dx + 1]],
                           x, y, region, k + 1)
             ELSE WriteRegion_NoLowerBound(g, x, y, region, k + 1)

\* the two nested loops of update_region, cell k of the row-major walk over
\* height x width; region[dy][dx] is read only for a target inside the grid
\* and raises IndexError when row dy is shorter than row 0
RECURSIVE WriteRegion(_, _, _, _, _)
WriteRegion(g, x, y, region, k) ==
    LET height == Len(region)
        width  == Len(region[1])
        dy     == k \div width
        dx     == k % width
        grid_x == x + dx
        grid_y == y + dy
    IN  IF k >= height * width
        THEN [grid |-> g, result |-> "ok"]
        ELSE IF 0 <= grid_x /\ grid_x < N /\ 0 <= grid_y /\ grid_y < N
             THEN IF dx + 1 > Len(region[dy + 1])
                  THEN [grid |-> g, result |-> "raised"]
                  ELSE WriteRegion([g EXCEPT ![grid_y][grid_x] = region[dy + 1][dx + 1]],
                                   x, y, region, k + 1)
             ELSE WriteRegion(g, x, y, region, k + 1)

\* update_region: len(region[0]) of an empty region raises before the loops
update_region(x, y, region) ==
    /\ ncalls' = ncalls + 1
    /\ LET r == IF Len(region) = 0
                THEN [grid |-> grid, result |-> "raised"]
                ELSE WriteRegion(grid, x, y, region, 0)
       IN  /\ grid' = r.grid
           /\ last' = [NoCall EXCEPT !.op = "update_region", !.x = x, !.y = y,
                                     !.region = region, !.result = r.result]
    /\ UNCHANGED <<runVars, origin, cortexVars>>

\* set_grid copying columns into rows
set_grid_Transposed(i) ==
    /\ ncalls' = ncalls + 1
    /\ LET new_grid == GridInput(i)
       IN  IF Len(new_grid) = N /\ \A r \in 1 .. Len(new_grid) : Len(new_grid[r]) = N
           THEN /\ grid' = [y \in 0 .. (Len(new_grid) - 1) |->
                              [x \in 0 .. (Len(new_grid[y + 1]) - 1) |->
                                  new_grid[x + 1][y + 1]]]
                /\ last' = [NoCall EXCEPT !.op = "set_grid", !.gi = i, !.result = "ok"]
           ELSE /\ grid' = grid
                /\ last' = [NoCall EXCEPT !.op = "set_grid", !.gi = i,
                                          !.result = "raised"]
    /\ UNCHANGED <<runVars, origin, cortexVars>>

\* set_grid testing the number of rows only
set_grid_RowCountOnly(i) ==
    /\ ncalls' = ncalls + 1
    /\ LET new_grid == GridInput(i)
       IN  IF Len(new_grid) = N
           THEN /\ grid' = [y \in 0 .. (Len(new_grid) - 1) |->
                              [x \in 0 .. (Len(new_grid[y + 1]) - 1) |->
                                  new_grid[y + 1][x + 1]]]
                /\ last' = [NoCall EXCEPT !.op = "set_grid", !.gi = i, !.result = "ok"]
           ELSE /\ grid' = grid
                /\ last' = [NoCall EXCEPT !.op = "set_grid", !.gi = i,
                                          !.result = "raised"]
    /\ UNCHANGED <<runVars, origin, cortexVars>>

\* set_grid: the dimension test, then a row-by-row copy, else ValueError
set_grid(i) ==
    /\ ncalls' = ncalls + 1
    /\ LET new_grid == GridInput(i)
       IN  IF Len(new_grid) = N /\ \A r \in 1 .. Len(new_grid) : Len(new_grid[r]) = N
           THEN /\ grid' = [y \in 0 .. (Len(new_grid) - 1) |->
                              [x \in 0 .. (Len(new_grid[y + 1]) - 1) |->
                                  new_grid[y + 1][x + 1]]]
                /\ last' = [NoCall EXCEPT !.op = "set_grid", !.gi = i, !.result = "ok"]
           ELSE /\ grid' = grid
                /\ last' = [NoCall EXCEPT !.op = "set_grid", !.gi = i,
                                          !.result = "raised"]
    /\ UNCHANGED <<runVars, origin, cortexVars>>

\* ---------------------------------------------------------------- run loop
Active(t) == pc[t] \in {"pushing", "sleeping"}

\* the finally block calling clear() without resetting the flag
ExitLoop_KeepingFlag(t) ==
    /\ is_running' = is_running
    /\ cleared' = [cleared EXCEPT ![t] = TRUE]
    /\ display' = Blank
    /\ pc' = [pc EXCEPT ![t] = "clearing"]

\* the finally block: reset the flag, then call primary_area.clear()
ExitLoop(t) ==
    /\ is_running' = FALSE
    /\ cleared' = [cleared EXCEPT ![t] = TRUE]
    /\ display' = Blank
    /\ pc' = [pc EXCEPT ![t] = "clearing"]

\* top of the while loop with the flag holding running: leave when it is
\* false, else build the image from the grid and call set_image
LoopTop(t, running, limit) ==
    IF running
    THEN /\ pushed[t] < limit
         /\ is_running' = running
         /\ pc' = [pc EXCEPT ![t] = "pushing"]
         /\ pushed' = [pushed EXCEPT ![t] = @ + 1]
         /\ UNCHANGED cleared
         /\ display' = RenderFrame(grid)
    ELSE /\ ExitLoop(t)
         /\ UNCHANGED pushed

\* run_game_of_life() is called: the coroutine exists, its body has not run
Call(t) ==
    /\ pc[t] = "idle"
    /\ pc' = [pc EXCEPT ![t] = "scheduled"]
    /\ UNCHANGED <<grid, is_running, gen, pushed, failed, cleared, outcome, display,
                   last, ncalls, stopReq, genAtStop, stopEarly, origin, cortexVars>>

\* first step of the body: set the flag, enter the loop, push the first frame
Start(t, limit) ==
    /\ pc[t] = "scheduled"
    /\ stopReq' = [u \in Tasks |-> FALSE]
    /\ UNCHANGED stopEarly
    /\ UNCHANGED <<grid, gen, failed, outcome, last, ncalls, genAtStop, origin, cortexVars>>
    /\ LoopTop(t, TRUE, limit)

\* set_image returned: compute new_grid from self.grid, replace, go to sleep
PushOk(t) ==
    /\ pc[t] = "pushing"
    /\ pc' = [pc EXCEPT ![t] = "sleeping"]
    /\ gen' = [gen EXCEPT ![t] = @ + 1]
    /\ UNCHANGED <<is_running, pushed, failed, cleared, outcome, display,
                   last, ncalls, stopReq, genAtStop, stopEarly, origin, cortexVars>>
    /\ grid' = NextGeneration(grid)

\* set_image raised and there is no finally block: the error leaves at once
PushFail_NoFinally(t) ==
    /\ pc[t] = "pushing"
    /\ failed' = [failed EXCEPT ![t] = TRUE]
    /\ pc' = [pc EXCEPT ![t] = "done"]
    /\ outcome' = [outcome EXCEPT ![t] = "raised"]
    /\ UNCHANGED <<grid, is_running, gen, pushed, cleared, display, last, ncalls,
                   stopReq, genAtStop, origin, cortexVars>>
    /\ stopEarly' = [stopEarly EXCEPT ![t] = FALSE]

\* set_image raised: journalled, re-raised, and the finally block runs
PushFail(t) ==
    /\ pc[t] = "pushing"
    /\ failed' = [failed EXCEPT ![t] = TRUE]
    /\ ExitLoop(t)
    /\ UNCHANGED <<grid, gen, pushed, outcome, last, ncalls, stopReq,
                   genAtStop, origin, cortexVars>>
    /\ stopEarly' = [stopEarly EXCEPT ![t] = FALSE]

\* the loop going round without testing the flag (while True)
Wake_IgnoringFlag(t, limit) ==
    /\ pc[t] = "sleeping"
    /\ LoopTop(t, TRUE, limit)
    /\ UNCHANGED <<grid, gen, failed, outcome, last, ncalls, stopReq,
                   genAtStop, origin, cortexVars>>
    /\ stopEarly' = [stopEarly EXCEPT ![t] = FALSE]

\* asyncio.sleep(0.1) is over: the while condition is tested again
Wake(t, limit) ==
    /\ pc[t] = "sleeping"
    /\ UNCHANGED <<grid, gen, failed, outcome, last, ncalls, stopReq,
                   genAtStop, origin, cortexVars>>
    /\ stopEarly' = [stopEarly EXCEPT ![t] = FALSE]
    /\ LoopTop(t, is_running, limit)

\* clear() returned: the coroutine returns, or re-raises the pending error
ClearDone(t) ==
    /\ pc[t] = "clearing"
    /\ pc' = [pc EXCEPT ![t] = "done"]
    /\ outcome' = [outcome EXCEPT ![t] = IF failed[t] THEN "raised" ELSE "returned"]
    /\ UNCHANGED <<grid, is_running, gen, pushed, failed, cleared, display,
                   last, ncalls, stopReq, genAtStop, stopEarly, origin, cortexVars>>

\* clear() raised inside the finally block: that error leaves the coroutine
ClearFail(t) ==
    /\ pc[t] = "clearing"
    /\ pc' = [pc EXCEPT ![t] = "done"]
    /\ outcome' = [outcome EXCEPT ![t] = "raised"]
    /\ UNCHANGED <<grid, is_running, gen, pushed, failed, cleared, display,
                   last, ncalls, stopReq, genAtStop, stopEarly, origin, cortexVars>>

\* stop_game: clears the flag, nothing else
stop_game ==
    /\ is_running' = FALSE
    /\ stopReq' = [t \in Tasks |-> stopReq[t] \/ Active(t)]
    /\ genAtStop' = [t \in Tasks |-> IF Active(t) /\ ~stopReq[t] THEN gen[t]
                                     ELSE genAtStop[t]]
    /\ stopEarly' = [t \in Tasks |-> stopEarly[t] \/ pc[t] = "scheduled"]
    /\ UNCHANGED <<grid, pc, gen, pushed, failed, cleared, outcome, display,
                   last, ncalls, origin, cortexVars>>

\* a step of the coroutine that the event loop resumes
Resume(t, limit) ==
    \/ PushFail(t)
    \/ PushOk(t)
    \/ ClearDone(t)
    \/ ClearFail(t)
    \/ Start(t, limit)
    \/ Wake(t, limit)

RunStep(t, limit) ==
    \/ Call(t)
    \/ Resume(t, limit)

\* a grid edit by some caller, its arguments drawn from the given sets
Edit(cellArgs, regionArgs, gridInputs) ==
    \/ \E a \in cellArgs : update_cell(a[1], a[2], a[3])
    \/ \E a \in regionArgs : update_region(a[1], a[2], a[3])
    \/ \E i \in gridInputs : set_grid(i)

\* ------------------------------------------------- initialize and cleanup
lifeVars == <<grid, runVars, last, ncalls, origin>>

\* everything of the grid and the run loop but the display sink
lifeVarsButDisplay == <<grid, is_running, pc, gen, pushed, failed, cleared, outcome,
                        stopReq, genAtStop, stopEarly, last, ncalls, origin>>

\* initialize: an initialised instance returns at once; else the flag takes
\* the success of associative_area.initialize, and splash_manager is
\* assigned unless SplashScreenManager(...) itself raised (a failure of the
\* manager's own initialize is logged and leaves the attribute assigned).
\* While its two awaits are pending the instance is as it was before the
\* call, or as a failed call leaves it, so the method is one action.
initialize(assoc_ok, manager_built) ==
    /\ IF _initialized
       THEN UNCHANGED areaVars
       ELSE /\ _initialized' = assoc_ok
            /\ splash_manager' = IF manager_built THEN "set" ELSE splash_manager
    /\ UNCHANGED <<cmdVars, lifeVars, splashVars, spriteVars>>

\* cleanup: clears the flag, nothing else
cleanup ==
    /\ _initialized' = FALSE
    /\ UNCHANGED <<cmdVars, splash_manager, lifeVars, splashVars, spriteVars>>

\* ---------------------------------------------------- show_splash_screen
\* the (progress, text) pairs of loading_steps with two of them exchanged
loading_steps_Swapped ==
    << <<10, "Loading visual cortex...">>,
       <<40, "Connecting components...">>,
       <<25, "Initializing LED matrix...">>,
       <<60, "Starting synaptic pathways...">>,
       <<80, "Preparing neural networks...">>,
       <<95, "Starting mind processes...">>,
       <<100, "System ready">> >>

loading_steps ==
    << <<10, "Loading visual cortex...">>,
       <<25, "Initializing LED matrix...">>,
       <<40, "Connecting components...">>,
       <<60, "Starting synaptic pathways...">>,
       <<80, "Preparing neural networks...">>,
       <<95, "Starting mind processes...">>,
       <<100, "System ready">> >>

\* frames of the rectangles animation: for i in range(10)
AnimationFrames == 10

\* the splash image as the display sink receives it: no cell of the grid,
\* known by its dark blue background
SplashFrame == (<<-1, -1>> :> <<0, 0, 32>>)

\* positions at which a call of the splash manager is awaited
ManagerStages == {"startup", "start_anim", "progress", "stop_anim", "complete"}

UpdateCall(i) == <<"update_loading_progress", loading_steps[i][1], loading_steps[i][2]>>

\* show_splash_screen returns v
SplashReturn(v) ==
    /\ sp_pc' = "done"
    /\ sp_result' = v

NoCommand == [type |-> "none", result |-> "none"]

\* when show_splash_screen returns to the process_command call that awaits
\* it: _process_splash returns its ok result whatever the method returned,
\* and the finally block of process_command clears the flag
CommandFollows ==
    IF cmd = "SPLASH" /\ sp_pc' = "done"
    THEN /\ _processing' = FALSE
         /\ cmd' = "none"
         /\ clast' = [type |-> "SPLASH", result |-> "ok"]
    ELSE UNCHANGED cmdVars

\* what follows the splash-manager path when it is absent or has raised:
\* the associative-area block (self.associative_area is always an object)
\* draws the image and awaits the first set_image of its animation; if the
\* drawing raises, the primary-area block draws and awaits set_image; if
\* that drawing raises too, the method returns False
Fallback ==
    /\ sp_ok' = 0
    /\ \/ /\ sp_pc' = "assoc_push"
          /\ sp_i' = 1
          /\ display' = SplashFrame
          /\ sp_result' = "none"
       \/ /\ sp_pc' = "primary_push"
          /\ display' = SplashFrame
          /\ sp_result' = "none"
          /\ UNCHANGED sp_i
       \/ /\ SplashReturn("False")
          /\ UNCHANGED <<sp_i, display>>

\* the body of show_splash_screen() up to its first await
SplashEntry ==
    /\ sp_pc \in {"idle", "done"}
    /\ sp_failed' = "none"
    /\ IF ~_initialized
       THEN /\ SplashReturn("False")
            /\ sp_calls' = << >>
            /\ sp_i' = 0
            /\ sp_ok' = 0
            /\ UNCHANGED display
       ELSE IF splash_manager = "set"
            THEN /\ sp_pc' = "startup"
                 /\ sp_calls' = << <<"show_startup_splash", 2>> >>
                 /\ sp_result' = "none"
                 /\ sp_i' = 0
                 /\ sp_ok' = 0
                 /\ UNCHANGED display
            ELSE /\ sp_calls' = << >>
                 /\ Fallback

\* show_splash_screen() called by a task of its own
show_splash_screen ==
    /\ SplashEntry
    /\ UNCHANGED <<cmdVars, lifeVarsButDisplay, areaVars, ev, spriteVars>>

\* the awaited splash-manager call returned: the next statement runs
ManagerOk ==
    /\ sp_pc \in ManagerStages
    /\ CASE sp_pc = "startup" ->
              /\ sp_pc' = "start_anim"
              /\ sp_calls' = Append(sp_calls,
                                    <<"start_loading_animation", "Initializing systems...">>)
              /\ UNCHANGED <<sp_i, sp_result>>
         [] sp_pc = "start_anim" ->
              /\ sp_pc' = "progress"
              /\ sp_i' = 1
              /\ sp_calls' = Append(sp_calls, UpdateCall(1))
              /\ UNCHANGED sp_result
         [] sp_pc = "progress" ->
              /\ sp_pc' = "hold"
              /\ UNCHANGED <<sp_i, sp_calls, sp_result>>
         [] sp_pc = "stop_anim" ->
              /\ sp_pc' = "complete"
              /\ sp_calls' = Append(sp_calls, <<"show_complete_splash", 2>>)
              /\ UNCHANGED <<sp_i, sp_result>>
         [] sp_pc = "complete" ->
              /\ SplashReturn("True")
              /\ UNCHANGED <<sp_i, sp_calls>>
    /\ UNCHANGED <<lifeVars, areaVars, sp_failed, sp_ok, ev, spriteVars>>
    /\ CommandFollows

\* the awaited splash-manager call raised: the except block logs the error
\* and control falls through to the fallback blocks
ManagerFail ==
    /\ sp_pc \in ManagerStages
    /\ sp_failed' = sp_pc
    /\ Fallback
    /\ UNCHANGED <<lifeVarsButDisplay, areaVars, sp_calls, ev, spriteVars>>
    /\ CommandFollows

\* an asyncio.sleep of show_splash_screen is over
SplashSleepOver ==
    /\ sp_pc \in {"hold", "final_hold", "assoc_sleep", "primary_hold"}
    /\ CASE sp_pc = "hold" ->
              /\ IF sp_i < Len(loading_steps)
                 THEN /\ sp_pc' = "progress"
                      /\ sp_i' = sp_i + 1
                      /\ sp_calls' = Append(sp_calls, UpdateCall(sp_i + 1))
                 ELSE /\ sp_pc' = "final_hold"
                      /\ UNCHANGED <<sp_i, sp_calls>>
              /\ UNCHANGED <<sp_result, display>>
         [] sp_pc = "final_hold" ->
              /\ sp_pc' = "stop_anim"
              /\ sp_calls' = Append(sp_calls, <<"stop_loading_animation">>)
              /\ UNCHANGED <<sp_i, sp_result, display>>
         [] sp_pc = "assoc_sleep" ->
              /\ IF sp_i < AnimationFrames
                 THEN /\ sp_pc' = "assoc_push"
                      /\ sp_i' = sp_i + 1
                      /\ display' = SplashFrame
                      /\ UNCHANGED sp_result
                 ELSE /\ SplashReturn("True")
                      /\ UNCHANGED <<sp_i, display>>
              /\ UNCHANGED sp_calls
         [] sp_pc = "primary_hold" ->
              /\ SplashReturn("True")
              /\ UNCHANGED <<sp_i, sp_calls, display>>
    /\ UNCHANGED <<lifeVarsButDisplay, areaVars, sp_failed, sp_ok, ev, spriteVars>>
    /\ CommandFollows

\* a fallback set_image returned r: the animation sleeps whatever r is; the
\* primary-area block holds the frame when r is true and returns r
FallbackPushOk(r) ==
    /\ sp_pc \in {"assoc_push", "primary_push"}
    /\ IF sp_pc = "assoc_push"
       THEN /\ sp_pc' = "assoc_sleep"
            /\ sp_ok' = sp_ok + 1
            /\ UNCHANGED sp_result
       ELSE IF r
            THEN /\ sp_pc' = "primary_hold"
                 /\ sp_ok' = sp_ok + 1
                 /\ UNCHANGED sp_result
            ELSE /\ SplashReturn("False")
                 /\ UNCHANGED sp_ok
    /\ UNCHANGED <<lifeVars, areaVars, sp_i, sp_calls, sp_failed, ev, spriteVars>>
    /\ CommandFollows

\* a fallback set_image raised: the animation's except block logs it and
\* `return result` returns the True assigned before the loop; the
\* primary-area block logs it and the method ends with return False
FallbackPushFail ==
    /\ sp_pc \in {"assoc_push", "primary_push"}
    /\ SplashReturn(IF sp_pc = "assoc_push" THEN "True" ELSE "False")
    /\ UNCHANGED <<lifeVars, areaVars, sp_i, sp_calls, sp_failed, sp_ok, ev, spriteVars>>
    /\ CommandFollows

SplashStep ==
    \/ show_splash_screen
    \/ ManagerOk
    \/ ManagerFail
    \/ SplashSleepOver
    \/ \E r \in BOOLEAN : FallbackPushOk(r)
    \/ FallbackPushFail

\* ------------------------------------------------------- process_command
\* command types: the two the method knows and one it does not
CommandTypes == {"DISPLAY", "SPLASH", "REBOOT"}

\* process_command testing the flag inside its try block: the error of the
\* rejected call is turned into an error result and the finally block runs
process_command_GuardInsideTry(type, has_content) ==
    IF ~_initialized
    THEN /\ clast' = [type |-> type, result |-> "not_initialized"]
         /\ UNCHANGED <<_processing, cmd, lifeVars, areaVars, splashVars, spriteVars>>
    ELSE IF _processing
    THEN /\ clast' = [type |-> type, result |-> "error"]
         /\ _processing' = FALSE
         /\ UNCHANGED <<cmd, lifeVars, areaVars, splashVars, spriteVars>>
    ELSE IF type = "SPLASH"
    THEN /\ SplashEntry
         /\ IF sp_pc' = "done"
            THEN /\ _processing' = FALSE
                 /\ cmd' = "none"
                 /\ clast' = [type |-> type, result |-> "ok"]
            ELSE /\ _processing' = TRUE
                 /\ cmd' = type
                 /\ clast' = [type |-> type, result |-> "pending"]
         /\ UNCHANGED <<lifeVarsButDisplay, areaVars, ev, spriteVars>>
    ELSE /\ _processing' = FALSE
         /\ clast' = [type |-> type,
                      result |-> IF type = "DISPLAY" /\ has_content THEN "ok" ELSE "error"]
         /\ UNCHANGED <<cmd, lifeVars, areaVars, splashVars, spriteVars>>

\* process_command up to its first await: RuntimeError before the try block
\* when the area is not initialised or a command is in flight; else the flag
\* is set, and a DISPLAY command (no await inside _process_display) or a
\* command of unknown type gets its ok or error result and the finally
\* block clears the flag in the same step; a SPLASH command enters
\* show_splash_screen and stays in flight until that method returns (the
\* one show_splash_screen coroutine followed must be free for it)
process_command(type, has_content) ==
    IF ~_initialized
    THEN /\ clast' = [type |-> type, result |-> "not_initialized"]
         /\ UNCHANGED <<_processing, cmd, lifeVars, areaVars, splashVars, spriteVars>>
    ELSE IF _processing
    THEN /\ clast' = [type |-> type, result |-> "already_processing"]
         /\ UNCHANGED <<_processing, cmd, lifeVars, areaVars, splashVars, spriteVars>>
    ELSE IF type = "SPLASH"
    THEN /\ SplashEntry
         /\ IF sp_pc' = "done"
            THEN /\ _processing' = FALSE
                 /\ cmd' = "none"
                 /\ clast' = [type |-> type, result |-> "ok"]
            ELSE /\ _processing' = TRUE
                 /\ cmd' = type
                 /\ clast' = [type |-> type, result |-> "pending"]
         /\ UNCHANGED <<lifeVarsButDisplay, areaVars, ev, spriteVars>>
    ELSE /\ _processing' = FALSE
         /\ clast' = [type |-> type,
                      result |-> IF type = "DISPLAY" /\ has_content THEN "ok" ELSE "error"]
         /\ UNCHANGED <<cmd, lifeVars, areaVars, splashVars, spriteVars>>

\* -------------------------------------------------- trigger_splash_event
EventNames == {"boot_complete", "no_such_event"}

\* the event names of the splash manager's configuration
RegisteredEvents == {"boot_complete"}

\* splash_manager.handle_event: whether the name is registered
handle_event(event_name) == event_name \in RegisteredEvents

NoEvent == [name |-> "", result |-> "none", called |-> FALSE]

\* trigger_splash_event letting an error of handle_event leave the method
trigger_splash_event_Propagating(event_name, raises) ==
    /\ ev' = IF ~_initialized \/ splash_manager = "none"
             THEN [name |-> event_name, result |-> "False", called |-> FALSE]
             ELSE IF raises
                  THEN [name |-> event_name, result |-> "raised", called |-> TRUE]
                  ELSE [name |-> event_name,
                        result |-> IF handle_event(event_name) THEN "True" ELSE "False",
                        called |-> TRUE]
    /\ UNCHANGED <<cmdVars, lifeVars, areaVars, sp_pc, sp_i, sp_calls, sp_failed, sp_result,
                   sp_ok, spriteVars>>

\* trigger_splash_event: False without a call when the instance is not
\* initialised or has no manager; else the result of handle_event, and
\* False when handle_event raises
trigger_splash_event(event_name, raises) ==
    /\ ev' = IF ~_initialized \/ splash_manager = "none"
             THEN [name |-> event_name, result |-> "False", called |-> FALSE]
             ELSE IF raises
                  THEN [name |-> event_name, result |-> "False", called |-> TRUE]
                  ELSE [name |-> event_name,
                        result |-> IF handle_event(event_name) THEN "True" ELSE "False",
                        called |-> TRUE]
    /\ UNCHANGED <<cmdVars, lifeVars, areaVars, sp_pc, sp_i, sp_calls, sp_failed, sp_result,
                   sp_ok, spriteVars>>

\* ------------------------------------------------------------- sprites
SpriteIds == {"s1", "s2"}

\* what the bridge answers to create_sprite: a response carrying an id, a
\* response without one (""), or an error ("raise")
CreateResponses == {"s1", "", "raise"}

ForwardedOps == {"draw_sprite", "update_sprite", "start_animation", "stop_animation"}

\* the attribute self._sprite_cache does not exist
Missing == [exists |-> FALSE, ids |-> {}]

NoSpriteCall == [op |-> "none", id |-> "", result |-> "none", sent |-> FALSE]

\* create_sprite: the command is sent; an id in the response is stored in
\* self._sprite_cache, which raises AttributeError when the attribute does
\* not exist; every error leaves as Exception("Error creating sprite: ...")
create_sprite(response) ==
    /\ scalls' = scalls + 1
    /\ bridge' = Append(bridge, <<"create_sprite", "">>)
    /\ LET result == IF response = "raise" THEN "bridge_error"
                     ELSE IF response = "" THEN "ok"
                     ELSE IF ~_sprite_cache.exists THEN "attribute_error"
                     ELSE "ok"
       IN  /\ slast' = [op |-> "create_sprite", id |-> response, result |-> result,
                        sent |-> TRUE]
           /\ IF result = "ok" /\ response # ""
              THEN /\ _sprite_cache' = [_sprite_cache EXCEPT !.ids = @ \cup {response}]
                   /\ returned' = returned \cup {response}
              ELSE UNCHANGED <<_sprite_cache, returned>>
    /\ UNCHANGED <<cmdVars, lifeVars, areaVars, splashVars>>

\* the four methods sending their command without the membership test
ForwardSprite_NoLookup(op, sprite_id, bridge_ok) ==
    /\ scalls' = scalls + 1
    /\ LET result == IF bridge_ok THEN "ok" ELSE "bridge_error"
       IN  /\ slast' = [op |-> op, id |-> sprite_id, result |-> result, sent |-> TRUE]
           /\ bridge' = Append(bridge, <<op, sprite_id>>)
    /\ UNCHANGED <<cmdVars, _sprite_cache, returned, lifeVars, areaVars, splashVars>>

\* draw_sprite, update_sprite, start_animation, stop_animation: the
\* membership test on self._sprite_cache (AttributeError when the attribute
\* does not exist, "Sprite ... not found" for an id it does not hold), then
\* the command is sent; every error leaves as a raised Exception
ForwardSprite(op, sprite_id, bridge_ok) ==
    /\ scalls' = scalls + 1
    /\ LET result == IF ~_sprite_cache.exists THEN "attribute_error"
                     ELSE IF sprite_id \notin _sprite_cache.ids THEN "not_found"
                     ELSE IF bridge_ok THEN "ok" ELSE "bridge_error"
           sent   == result \in {"ok", "bridge_error"}
       IN  /\ slast' = [op |-> op, id |-> sprite_id, result |-> result, sent |-> sent]
           /\ bridge' = IF sent THEN Append(bridge, <<op, sprite_id>>) ELSE bridge
    /\ UNCHANGED <<cmdVars, _sprite_cache, returned, lifeVars, areaVars, splashVars>>

draw_sprite(sprite_id, bridge_ok) == ForwardSprite("draw_sprite", sprite_id, bridge_ok)

update_sprite(sprite_id, bridge_ok) == ForwardSprite("update_sprite", sprite_id, bridge_ok)

start_animation(sprite_id, bridge_ok) ==
    ForwardSprite("start_animation", sprite_id, bridge_ok)

stop_animation(sprite_id, bridge_ok) == ForwardSprite("stop_animation", sprite_id, bridge_ok)

\* delete_sprite: a cached id is deleted at the bridge and then dropped from
\* the cache; an id that is not cached is left alone without an error
delete_sprite(sprite_id, bridge_ok) ==
    /\ scalls' = scalls + 1
    /\ LET result == IF ~_sprite_cache.exists THEN "attribute_error"
                     ELSE IF sprite_id \notin _sprite_cache.ids THEN "ok"
                     ELSE IF bridge_ok THEN "ok" ELSE "bridge_error"
           sent   == _sprite_cache.exists /\ sprite_id \in _sprite_cache.ids
       IN  /\ slast' = [op |-> "delete_sprite", id |-> sprite_id, result |-> result,
                        sent |-> sent]
           /\ bridge' = IF sent THEN Append(bridge, <<"delete_sprite", sprite_id>>)
                        ELSE bridge
           /\ _sprite_cache' = IF sent /\ result = "ok"
                               THEN [_sprite_cache EXCEPT !.ids = @ \ {sprite_id}]
                               ELSE _sprite_cache
           /\ returned' = IF result = "ok" THEN returned \ {sprite_id} ELSE returned
    /\ UNCHANGED <<cmdVars, lifeVars, areaVars, splashVars>>

\* a sprite call by some caller
SpriteCall ==
    \/ \E r \in CreateResponses : create_sprite(r)
    \/ \E s \in SpriteIds, ok \in BOOLEAN :
           \/ draw_sprite(s, ok)
           \/ update_sprite(s, ok)
           \/ start_animation(s, ok)
           \/ stop_animation(s, ok)
           \/ delete_sprite(s, ok)

\* __init__ for what is not the grid: not initialised, no splash manager,
\* and no _sprite_cache attribute
CortexInit ==
    /\ _initialized = FALSE
    /\ splash_manager = "none"
    /\ sp_pc = "idle"
    /\ sp_i = 0
    /\ sp_calls = << >>
    /\ sp_failed = "none"
    /\ sp_result = "none"
    /\ sp_ok = 0
    /\ ev = NoEvent
    /\ _sprite_cache = Missing
    /\ bridge = << >>
    /\ slast = NoSpriteCall
    /\ scalls = 0
    /\ returned = {}
    /\ _processing = FALSE
    /\ cmd = "none"
    /\ clast = NoCommand

\* --------------------------------------------------------- specifications
\* __init__: an empty grid, not running; no coroutine exists
Init ==
    /\ grid = [y \in Idx |-> [x \in Idx |-> 0]]
    /\ is_running = FALSE
    /\ pc = [t \in Tasks |-> "idle"]
    /\ gen = [t \in Tasks |-> 0]
    /\ pushed = [t \in Tasks |-> 0]
    /\ failed = [t \in Tasks |-> FALSE]
    /\ cleared = [t \in Tasks |-> FALSE]
    /\ outcome = [t \in Tasks |-> "none"]
    /\ display = Blank
    /\ last = NoCall
    /\ ncalls = 0
    /\ stopReq = [t \in Tasks |-> FALSE]
    /\ genAtStop = [t \in Tasks |-> 0]
    /\ stopEarly = [t \in Tasks |-> FALSE]
    /\ origin = << >>
    /\ CortexInit

\* one run_game_of_life() coroutine, with grid edits and stop_game issued by
\* other tasks between its steps
Next ==
    \/ ncalls < MaxRunCalls /\ Edit(RunCellArgs, RunRegionArgs, RunGridInputs)
    \/ stop_game
    \/ RunStep(1, MaxGen)

Spec == Init /\ [][Next]_vars

\* grid edits alone, one call after another
EditNext == ncalls < MaxCalls /\ Edit(CellArgs, RegionArgs, GridInputs)

EditSpec == Init /\ [][EditNext]_vars

\* two run_game_of_life() coroutines on the same instance, and stop_game
ConcNext ==
    \/ stop_game
    \/ \E t \in Tasks : RunStep(t, MaxGen)

ConcSpec == Init /\ [][ConcNext]_vars

\* the event loop resumes a coroutine whose await has completed: sleep(0.1)
\* elapses, and set_image and clear come back (returning or raising)
FairConcSpec == ConcSpec /\ \A t \in Tasks : WF_vars(Resume(t, MaxGen))

\* positions of the seeded glider: inside the grid and across each edge
GliderAt == {0, 30, 61, 62, 63}

\* the grid holds one glider (as set_grid leaves it) and nothing runs yet
GliderInit ==
    /\ \E px \in GliderAt, py \in GliderAt :
           /\ grid = PatternGrid(GliderCells(px, py))
           /\ origin = <<px, py>>
    /\ is_running = FALSE
    /\ pc = [t \in Tasks |-> "idle"]
    /\ gen = [t \in Tasks |-> 0]
    /\ pushed = [t \in Tasks |-> 0]
    /\ failed = [t \in Tasks |-> FALSE]
    /\ cleared = [t \in Tasks |-> FALSE]
    /\ outcome = [t \in Tasks |-> "none"]
    /\ display = Blank
    /\ last = NoCall
    /\ ncalls = 0
    /\ stopReq = [t \in Tasks |-> FALSE]
    /\ genAtStop = [t \in Tasks |-> 0]
    /\ stopEarly = [t \in Tasks |-> FALSE]
    /\ CortexInit

GliderNext ==
    \/ stop_game
    \/ RunStep(1, MaxGliderGen)

GliderSpec == GliderInit /\ [][GliderNext]_vars

\* initialize / cleanup, one show_splash_screen() coroutine at a time, and
\* trigger_splash_event calls by other tasks
SplashNext ==
    \/ \E a \in BOOLEAN, m \in BOOLEAN : initialize(a, m)
    \/ cleanup
    \/ SplashStep
    \/ \E e \in EventNames, r \in BOOLEAN : trigger_splash_event(e, r)

SplashSpec == Init /\ [][SplashNext]_vars

\* sprite calls and grid edits, one call after another
ApiNext ==
    \/ scalls < MaxSpriteCalls /\ SpriteCall
    \/ ncalls < MaxRunCalls /\ Edit(RunCellArgs, RunRegionArgs, RunGridInputs)

ApiSpec == Init /\ [][ApiNext]_vars

\* initialize / cleanup, process_command calls by any task, and the
\* show_splash_screen coroutine (called by a SPLASH command or directly)
CommandNext ==
    \/ \E a \in BOOLEAN, m \in BOOLEAN : initialize(a, m)
    \/ cleanup
    \/ \E c \in CommandTypes, h \in BOOLEAN : process_command(c, h)
    \/ SplashStep

CommandSpec == Init /\ [][CommandNext]_vars


\* -------------------------------------------------------------- properties

\* C1: for x, y in 0..63 and state in {0,1}, update_cell(x, y, state) leaves
\* state in the cell at column x, row y and every other cell as it was.
C1_UpdateCellWritesOneCell ==
    [][ ( /\ ncalls' = ncalls + 1
          /\ last'.op = "update_cell"
          /\ last'.x \in Idx /\ last'.y \in Idx /\ last'.state \in {0, 1} )
        => \A cy \in Idx, cx \in Idx :
               grid'[cy][cx] = IF cx = last'.x /\ cy = last'.y
                               THEN last'.state
                               ELSE grid[cy][cx] ]_vars

\* a valid update_cell has just written a 1 off the diagonal into a grid
\* that an earlier edit had already filled in elsewhere
C1_Witness ==
    /\ ncalls = 2
    /\ last.op = "update_cell" /\ last.result = "ok"
    /\ last.x = 63 /\ last.y = 0 /\ last.state = 1
    /\ grid[0][63] = 1 /\ grid[63][0] = 0
    /\ \E cy \in Idx, cx \in Idx : <<cx, cy>> # <<63, 0>> /\ grid[cy][cx] # 0

\* C2: an update_cell whose x or y is outside 0..63 (negative included) or
\* whose state is not 0 or 1 leaves the whole grid as it was and raises
\* nothing.
C2_InvalidUpdateCellIsNoOp ==
    [][ ( /\ ncalls' = ncalls + 1
          /\ last'.op = "update_cell"
          /\ ~(last'.x \in Idx /\ last'.y \in Idx /\ last'.state \in {0, 1}) )
        => (grid' = grid /\ last'.result # "raised") ]_vars

\* update_cell(-1, 0, 1) has just been turned down on a grid that is not empty
C2_Witness ==
    /\ ncalls = 2
    /\ last.op = "update_cell" /\ last.result = "rejected"
    /\ last.x = -1 /\ last.y = 0 /\ last.state = 1
    /\ \E cy \in Idx, cx \in Idx : grid[cy][cx] # 0

\* C3: after set_grid(g) with g of 64 rows of 64 cells in {0,1}, the grid
\* equals g cell for cell, whatever it held before.
C3_SetGridRoundTrip ==
    [][ ( /\ ncalls' = ncalls + 1
          /\ last'.op = "set_grid"
          /\ LET g == GridInput(last'.gi)
             IN  /\ Len(g) = N
                 /\ \A r \in 1 .. N : Len(g[r]) = N
                 /\ \A r \in 1 .. N, c \in 1 .. N : g[r][c] \in {0, 1} )
        => ( /\ DOMAIN grid' = Idx
             /\ \A y \in Idx : DOMAIN grid'[y] = Idx
             /\ \A y \in Idx, x \in Idx :
                    grid'[y][x] = GridInput(last'.gi)[y + 1][x + 1] ) ]_vars

\* set_grid has just replaced a grid holding the block by the glider grid
C3_Witness ==
    /\ ncalls = 2
    /\ last.op = "set_grid" /\ last.result = "ok" /\ last.gi = 2
    /\ grid[0][63] = 1 /\ grid[62][63] = 1 /\ grid[1][1] = 0

\* C4: set_grid with an argument that is not 64 rows of 64 columns leaves
\* the grid as it was and raises the dimension error.
C4_MalformedSetGridRejected ==
    [][ ( /\ ncalls' = ncalls + 1
          /\ last'.op = "set_grid"
          /\ LET g == GridInput(last'.gi)
             IN  ~(Len(g) = N /\ \A r \in 1 .. Len(g) : Len(g[r]) = N) )
        => (grid' = grid /\ last'.result = "raised") ]_vars

\* set_grid with a last row of 65 cells has just been refused on a grid that
\* is not empty
C4_Witness ==
    /\ ncalls = 2
    /\ last.op = "set_grid" /\ last.result = "raised" /\ last.gi = 8
    /\ \E cy \in Idx, cx \in Idx : grid[cy][cx] # 0

\* C5: in every reachable state the grid has exactly 64 rows of exactly 64
\* columns and every cell is 0 or 1.
C5_GridIsBinary64x64 ==
    /\ DOMAIN grid = Idx
    /\ \A y \in Idx : DOMAIN grid[y] = Idx
    /\ \A y \in Idx, x \in Idx : grid[y][x] \in {0, 1}

\* C6: one generation step replaces the grid by the Game of Life successor
\* on the 64x64 torus: with n the number of live cells among the 8
\* neighbours (indices modulo 64), a live cell is live next iff n is 2 or 3,
\* a dead cell iff n is 3, all computed from the old grid.
C6_GenerationIsLifeRule ==
    [][ (\E t \in Tasks : gen'[t] = gen[t] + 1)
        => \A y \in Idx, x \in Idx :
               LET around == { d \in {-1, 0, 1} \X {-1, 0, 1} : d # <<0, 0>> }
                   n == Cardinality({ d \in around :
                            grid[(y + d[2]) % N][(x + d[1]) % N] # 0 })
                   live == grid[y][x] # 0
               IN  grid'[y][x] = IF (live /\ n \in {2, 3}) \/ (~live /\ n = 3)
                                 THEN 1 ELSE 0 ]_vars

\* C7: from a grid holding only a canonical glider at any position, edge
\* positions included, 4 generation steps leave the same glider moved one
\* cell down and one cell right, modulo 64.
C7_GliderMovesDiagonally ==
    (origin # << >> /\ gen[1] = 4)
        => grid = PatternGrid(GliderCells(origin[1] + 1, origin[2] + 1))

\* the fourth generation has been computed from a glider seeded across the
\* corner of the grid
C7_Witness ==
    /\ origin = <<62, 63>>
    /\ gen[1] = 4
    /\ grid[0][0] = 1 /\ grid[1][1] = 1 /\ grid[2][63] = 1

\* C8: update_region(x, y, region) with a rectangular region writes
\* region[dy][dx] to cell (x+dx, y+dy) exactly where that cell is inside the
\* grid, skips the others without error, and leaves every cell outside the
\* footprint as it was.
C8_UpdateRegionClips ==
    [][ ( /\ ncalls' = ncalls + 1
          /\ last'.op = "update_region"
          /\ Len(last'.region) > 0
          /\ \A r \in 1 .. Len(last'.region) :
                 Len(last'.region[r]) = Len(last'.region[1]) )
        => ( /\ last'.result = "ok"
             /\ \A cy \in Idx, cx \in Idx :
                    LET dx == cx - last'.x
                        dy == cy - last'.y
                    IN  grid'[cy][cx] =
                            IF /\ 0 <= dy /\ dy < Len(last'.region)
                               /\ 0 <= dx /\ dx < Len(last'.region[1])
                            THEN last'.region[dy + 1][dx + 1]
                            ELSE grid[cy][cx] ) ]_vars

\* a 2x3 region placed at (-1, 63) has lost its first column and its second
\* row, over a grid an earlier edit had filled in elsewhere
C8_Witness ==
    /\ ncalls = 2
    /\ last.op = "update_region" /\ last.result = "ok"
    /\ last.x = -1 /\ last.y = 63 /\ last.region = Block23
    /\ grid[63][0] = 1 /\ grid[63][1] = 1 /\ grid[63][63] = 0 /\ grid[0][0] = 1

\* C9: after stop_game runs while a run loop is active, and as long as no
\* run is started, that loop pushes no further frame, computes at most the
\* generation in flight, eventually ends, and has called clear() on the sink
\* by the time it ends.
C9_StopEndsLoop ==
    /\ [][ \A t \in Tasks :
               (stopReq[t] /\ stopReq'[t]) => pushed'[t] = pushed[t] ]_vars
    /\ [](\A t \in Tasks : stopReq[t] => gen[t] <= genAtStop[t] + 1)
    /\ [](\A t \in Tasks : pc[t] = "done" => cleared[t])
    /\ \A t \in Tasks : stopReq[t] ~> (pc[t] = "done" \/ ~stopReq[t])

\* a loop stopped during its second set_image finished that generation,
\* cleared the sink and returned
C9_Witness ==
    /\ stopReq[1]
    /\ pc[1] = "done" /\ outcome[1] = "returned" /\ cleared[1]
    /\ pushed[1] = 2 /\ genAtStop[1] = 1 /\ gen[1] = 2

\* C10: when set_image fails in the loop, the flag is reset and clear() is
\* called in that step, before the error leaves run_game_of_life(); the loop
\* computes no generation and pushes no frame afterwards, and ends raising.
C10_RenderFailureCleansUp ==
    [][ \A t \in Tasks :
            /\ (failed'[t] /\ ~failed[t])
                   => ( /\ ~is_running'
                        /\ cleared'[t]
                        /\ outcome'[t] = "none"
                        /\ gen'[t] = gen[t] )
            /\ failed[t]
                   => ( /\ gen'[t] = gen[t]
                        /\ pushed'[t] = pushed[t]
                        /\ pc'[t] \in {"clearing", "done"} )
            /\ (failed[t] /\ pc'[t] = "done")
                   => (cleared[t] /\ outcome'[t] = "raised") ]_vars

\* the second push failed: one generation had been computed, the sink was
\* cleared and the error reached the caller
C10_Witness ==
    /\ failed[1] /\ pc[1] = "done" /\ outcome[1] = "raised"
    /\ cleared[1] /\ ~is_running
    /\ pushed[1] = 2 /\ gen[1] = 1

\* C11: a show_splash_screen() run in which no splash-manager call fails has
\* issued, when it returns True, exactly show_startup_splash,
\* start_loading_animation, the seven update_loading_progress calls with the
\* pairs (10, "Loading visual cortex..."), (25, "Initializing LED matrix..."),
\* (40, "Connecting components..."), (60, "Starting synaptic pathways..."),
\* (80, "Preparing neural networks..."), (95, "Starting mind processes..."),
\* (100, "System ready") in that order, stop_loading_animation and
\* show_complete_splash; and in every run a show_complete_splash call comes
\* after a stop_loading_animation call.
C11_SplashCallSequence ==
    /\ (sp_pc = "done" /\ sp_result = "True" /\ sp_failed = "none" /\ sp_calls # << >>) =>
           sp_calls = << <<"show_startup_splash", 2>>,
                         <<"start_loading_animation", "Initializing systems...">>,
                         <<"update_loading_progress", 10, "Loading visual cortex...">>,
                         <<"update_loading_progress", 25, "Initializing LED matrix...">>,
                         <<"update_loading_progress", 40, "Connecting components...">>,
                         <<"update_loading_progress", 60, "Starting synaptic pathways...">>,
                         <<"update_loading_progress", 80, "Preparing neural networks...">>,
                         <<"update_loading_progress", 95, "Starting mind processes...">>,
                         <<"update_loading_progress", 100, "System ready">>,
                         <<"stop_loading_animation">>,
                         <<"show_complete_splash", 2>> >>
    /\ \A k \in 1 .. Len(sp_calls) :
           sp_calls[k][1] = "show_complete_splash" =>
               \E j \in 1 .. (k - 1) : sp_calls[j][1] = "stop_loading_animation"

\* the whole sequence ran and show_splash_screen returned True
C11_Witness ==
    /\ sp_pc = "done" /\ sp_result = "True" /\ sp_failed = "none"
    /\ Len(sp_calls) = 11
    /\ sp_calls[11][1] = "show_complete_splash"

\* C12: when a splash-manager call raises after start_loading_animation has
\* returned (an update_loading_progress, stop_loading_animation or
\* show_complete_splash call), show_splash_screen() has invoked
\* stop_loading_animation by the time it returns.
C12_AnimationStoppedOnFailure ==
    (sp_pc = "done" /\ sp_failed \in {"progress", "stop_anim", "complete"}) =>
        \E k \in 1 .. Len(sp_calls) : sp_calls[k][1] = "stop_loading_animation"

\* C13: show_splash_screen() never raises, and when the splash-manager path
\* has failed (or there is no manager) and no fallback frame was accepted by
\* the display sink, it returns False and not True.
C13_SplashReportsTotalFailure ==
    /\ sp_result \in {"none", "True", "False"}
    /\ (sp_pc = "done" /\ (sp_failed # "none" \/ sp_calls = << >>) /\ sp_ok = 0) =>
           sp_result = "False"

\* C14: no validation error and no unknown-handle error is raised to the
\* caller: set_grid with an argument that is not 64 rows of 64 columns,
\* update_cell with an argument out of range, and draw_sprite,
\* update_sprite, start_animation or stop_animation with a sprite id that
\* the cache does not hold, each end by returning a failure result.
C14_ValidationErrorsNotRaised ==
    [][ /\ ( /\ ncalls' # ncalls
             /\ last'.op = "set_grid"
             /\ LET g == GridInput(last'.gi)
                IN  ~(Len(g) = N /\ \A r \in 1 .. Len(g) : Len(g[r]) = N) )
           => last'.result # "raised"
        /\ ( /\ ncalls' # ncalls
             /\ last'.op = "update_cell"
             /\ ~(last'.x \in Idx /\ last'.y \in Idx /\ last'.state \in {0, 1}) )
           => last'.result # "raised"
        /\ ( /\ scalls' # scalls
             /\ slast'.op \in ForwardedOps
             /\ slast'.id \notin _sprite_cache.ids )
           => slast'.result \notin {"attribute_error", "not_found", "bridge_error"}
      ]_vars

\* C14 as the code has it: set_grid with an argument that is not 64 rows of
\* 64 columns raises and leaves the grid as it was; update_cell with an
\* argument out of range returns without raising and leaves the grid as it
\* was; draw_sprite, update_sprite, start_animation and stop_animation with a
\* sprite id that the cache does not hold raise and send no command.
C14_ErrorsRaisedOrJournalled ==
    [][ /\ ( /\ ncalls' # ncalls
             /\ last'.op = "set_grid"
             /\ LET g == GridInput(last'.gi)
                IN  ~(Len(g) = N /\ \A r \in 1 .. Len(g) : Len(g[r]) = N) )
           => (last'.result = "raised" /\ grid' = grid)
        /\ ( /\ ncalls' # ncalls
             /\ last'.op = "update_cell"
             /\ ~(last'.x \in Idx /\ last'.y \in Idx /\ last'.state \in {0, 1}) )
           => (last'.result = "rejected" /\ grid' = grid)
        /\ ( /\ scalls' # scalls
             /\ slast'.op \in ForwardedOps
             /\ slast'.id \notin _sprite_cache.ids )
           => ( /\ slast'.result \in {"attribute_error", "not_found"}
                /\ ~slast'.sent
                /\ bridge' = bridge )
      ]_vars

\* set_grid with 63 rows has raised, and stop_animation("s2") has raised
\* after a create_sprite call was sent to the bridge
C14_Witness ==
    /\ last.op = "set_grid" /\ last.gi = 6 /\ last.result = "raised"
    /\ slast.op = "stop_animation" /\ slast.id = "s2"
    /\ slast.result \in {"attribute_error", "not_found"}
    /\ Len(bridge) = 1

\* C15: an update_region call whose region is malformed (empty, or ragged
\* with a row shorter than the first) changes no cell of the grid.
C15_MalformedRegionIsNoOp ==
    [][ ( /\ ncalls' # ncalls
          /\ last'.op = "update_region"
          /\ LET region == last'.region
             IN  \/ Len(region) = 0
                 \/ \E r \in 1 .. Len(region) : Len(region[r]) < Len(region[1]) )
        => grid' = grid ]_vars

\* C16: a sprite id that create_sprite has returned is a known handle until
\* delete_sprite takes it: draw_sprite, update_sprite, start_animation and
\* stop_animation on it are sent to the bridge; on any other id they
\* report the unknown-handle error and send nothing.
C16_SpriteHandleLifecycle ==
    [][ scalls' # scalls =>
          /\ (slast'.op = "create_sprite" /\ slast'.id \in SpriteIds
                  /\ slast'.result = "ok") =>
                 slast'.id \in _sprite_cache'.ids
          /\ slast'.op \in ForwardedOps =>
                 IF slast'.id \in returned
                 THEN slast'.sent /\ bridge' = Append(bridge, <<slast'.op, slast'.id>>)
                 ELSE slast'.result = "not_found" /\ ~slast'.sent /\ bridge' = bridge
      ]_vars

\* C17: trigger_splash_event never raises; with a name the splash manager
\* does not recognise it returns False; when the area is not initialised or
\* has no splash manager it returns False without calling the manager; and
\* it changes nothing of the integration area.
C17_UnknownEventReturnsFalse ==
    [][ ev' # ev =>
          /\ ev'.result \in {"True", "False"}
          /\ ev'.name \notin RegisteredEvents => ev'.result = "False"
          /\ (~_initialized \/ splash_manager = "none") =>
                 (ev'.result = "False" /\ ~ev'.called)
          /\ UNCHANGED <<grid, is_running, display, _initialized, splash_manager,
                         _sprite_cache, sp_pc, sp_calls, sp_result>>
      ]_vars

\* an initialised area with a splash manager has passed an unrecognised name
\* to handle_event and has returned False, while a splash sequence runs
C17_Witness ==
    /\ _initialized /\ splash_manager = "set"
    /\ ev.name = "no_such_event" /\ ev.called /\ ev.result = "False"
    /\ sp_pc = "hold"

\* C18: while initialize() has not completed successfully, a command has no
\* effect on the grid or on the display sink, and a grid edit is answered
\* as not-initialised.
C18_NotInitializedHasNoEffect ==
    [][ ~_initialized =>
          /\ grid' = grid
          /\ display' = display
          /\ pushed' = pushed
          /\ ncalls' # ncalls => last'.result = "not_initialized"
      ]_vars

\* C19: every frame run_game_of_life pushes colours each live cell
\* (0, min(255, 40 n), 255 - 20 n), n being the number of its eight
\* toroidal neighbours that are live, and leaves every dead cell black;
\* every channel of the frame lies in 0..255.
C19_FrameColours ==
    [][ pushed' # pushed =>
          LET live == {p \in Idx \X Idx : grid[p[2]][p[1]] # 0}
              n(p) == Cardinality({d \in ({-1, 0, 1} \X {-1, 0, 1}) \ {<<0, 0>>} :
                          <<(p[1] + d[1]) % N, (p[2] + d[2]) % N>> \in live})
          IN  /\ DOMAIN display' = live
              /\ \A p \in live :
                     display'[p] = <<0, Min(255, 40 * n(p)), 255 - 20 * n(p)>>
              /\ \A p \in live : \A c \in 1 .. 3 : display'[p][c] \in 0 .. 255
      ]_vars

\* C20: between the render of a generation and its rule application no
\* other task changes the grid: while a run loop awaits set_image, no
\* update_cell, update_region, set_grid or step of another run loop takes
\* effect, so the grid that is evolved is the grid that was displayed.
C20_EvolvedGridWasDisplayed ==
    [][ \A t \in Tasks :
            (pc[t] = "pushing" /\ pc'[t] = "pushing") => grid' = grid ]_vars

\* C21: a stop_game that runs after run_game_of_life() was called and before
\* the first step of that run (before the loop sets its flag) is not lost:
\* the run does not go round its loop past its first test of the flag after
\* that stop, and it eventually ends, having called clear() on the sink.
C21_EarlyStopNotLost ==
    /\ [][ \A t \in Tasks :
                (stopEarly[t] /\ pc[t] = "sleeping" /\ pc'[t] # "sleeping")
                    => pc'[t] = "clearing" ]_vars
    /\ \A t \in Tasks : stopEarly[t] ~> (pc[t] = "done" /\ cleared[t])

\* C22: process_command handles at most one command at a time: the flag
\* _processing is true exactly while a command is in flight, so it is false
\* again once the command has succeeded, returned an error result or failed;
\* and a call made on an initialised area while a command is in flight is
\* rejected as already processing, leaving the flag and the command in
\* flight as they are.
C22_OneCommandAtATime ==
    /\ [](_processing <=> cmd # "none")
    /\ [][ (clast' # clast /\ cmd' = cmd /\ _initialized /\ _processing) =>
               /\ clast'.result = "already_processing"
               /\ _processing'
               /\ UNCHANGED <<sp_pc, sp_calls, display>> ]_vars
    /\ [][ (clast' # clast /\ clast'.result \in {"ok", "error"}) => ~_processing' ]_vars

\* a SPLASH command is in flight, holding a loading step, and a second call
\* has just been rejected
C22_Witness ==
    /\ _initialized /\ _processing /\ cmd = "SPLASH"
    /\ sp_pc = "hold"
    /\ clast = [type |-> "DISPLAY", result |-> "already_processing"]

\* C23: two run loops on one instance share the flag: a loop that leaves its
\* while loop, by stop_game or by a render failure, leaves the flag reset;
\* a loop that is active with the flag reset pushes no further frame while
\* the flag stays reset, and, unless a run is started and sets the flag
\* again, it ends.
C23_LoopsShareRunningFlag ==
    /\ [][ \A t \in Tasks : (Active(t) /\ ~Active(t)') => ~is_running' ]_vars
    /\ [][ \A t \in Tasks :
               (Active(t) /\ ~is_running /\ ~is_running') => pushed'[t] = pushed[t] ]_vars
    /\ \A t \in Tasks : (Active(t) /\ ~is_running) ~> (pc[t] = "done" \/ is_running)

\* both loops were active, stop_game never ran; the first loop ended on a
\* render failure, and the second, having pushed frames, has returned
C23_Witness ==
    /\ failed[1] /\ pc[1] = "done" /\ outcome[1] = "raised"
    /\ ~failed[2] /\ pc[2] = "done" /\ outcome[2] = "returned" /\ cleared[2]
    /\ pushed[2] = 2 /\ gen[2] = 2
    /\ ~stopReq[1] /\ ~stopReq[2] /\ ~stopEarly[1] /\ ~stopEarly[2]
    /\ ~is_running

====
